---- MODULE Spec2Model ----
(***************************************************************************)
(* Sound Waveform Generator (soundwave_generator/__init__.py).             *)
(*                                                                         *)
(* The model follows one run of SOUNDWAVEFORM_OT_generate.execute from the *)
(* operator being invoked to its return value, together with the part of   *)
(* the host (bpy.data.meshes, bpy.data.objects, the collection, selection) *)
(* that the operator touches.                                              *)
(*                                                                         *)
(* Floating point amplitudes and scales are modelled as exact rationals    *)
(* <<numerator, denominator>> in lowest terms.  cos and sin are kept       *)
(* symbolic: a coordinate is a term [f, a, m] standing for f(a * pi) * m   *)
(* (f = "id" stands for the plain value m).                                *)
(***************************************************************************)
EXTENDS Integers, Sequences, FiniteSets, TLC

\* ---------------------------------------------------------------- bounds
\* largest number of samples per channel of an audio file that is explored
MaxSamples == 21
\* largest value of the resolution property that is explored
MaxResolutionExplored == 11

\* ------------------------------------------------------ program constants
\* resolution: IntProperty(min=10)
MinResolution == 10
\* revolutions = 5.0 (SPIRAL)
revolutions == 5

\* ------------------------------------------------------------- rationals
Abs(x) == IF x < 0 THEN -x ELSE x

RECURSIVE GCD(_, _)
GCD(a, b) == IF b = 0 THEN a ELSE GCD(b, a % b)

\* n / d in lowest terms with a positive denominator (d # 0)
Rat(n, d) ==
    LET s == IF d < 0 THEN -1 ELSE 1
        g == GCD(Abs(n), Abs(d))
    IN  <<(s * n) \div g, (s * d) \div g>>

FromInt(n) == <<n, 1>>
RAdd(p, q) == Rat(p[1] * q[2] + q[1] * p[2], p[2] * q[2])
RMul(p, q) == Rat(p[1] * q[1], p[2] * q[2])
RNeg(p) == <<-p[1], p[2]>>
RDiv(p, q) == Rat(p[1] * q[2], p[2] * q[1])
RAbs(p) == <<Abs(p[1]), p[2]>>
RLess(p, q) == p[1] * q[2] < q[1] * p[2]
Zero == FromInt(0)
One == FromInt(1)
Half == Rat(1, 2)

\* a sequence of length n built by n appends, F(k) being the k-th appended
SeqOf(n, F(_)) == IF n <= 0 THEN <<>> ELSE [k \in 1..n |-> F(k)]

\* a coordinate f(a * pi) * m; "id" is the plain number m
Plain(m) == [f |-> "id", a |-> Zero, m |-> m]
Trig(f, a, m) == [f |-> f, a |-> a, m |-> m]

\* ------------------------------------------------------------ the inputs
\* The audio files explored: per channel one of a few wave shapes, so that
\* the sample at index i tells which index it came from.
WaveShapes == {"ramp", "saw", "silence"}

WaveSample(w, i) ==
    CASE w = "ramp" -> Rat(i + 1, 32)
      [] w = "saw" -> Rat((i % 3) - 1, 2)
      [] OTHER -> Zero

Channel(w, n) == SeqOf(n, LAMBDA k : WaveSample(w, k - 1))

\* what librosa.load(filepath, sr=None, mono=False) returns for a file:
\* a 1-dimensional array for a mono file, a (2, N) array for a stereo file
AudioFiles ==
    {[ndim |-> 1, data |-> <<Channel(w, n)>>] :
        w \in WaveShapes, n \in 0..MaxSamples}
    \cup
    {[ndim |-> 2, data |-> <<Channel(w[1], n), Channel(w[2], n)>>] :
        w \in {<<"ramp", "saw">>, <<"saw", "ramp">>, <<"silence", "ramp">>},
        n \in 0..MaxSamples}

\* the settings of SoundWaveformProperties that execute reads
ScaleSettings ==
    {[scale_x |-> FromInt(1), scale_y |-> FromInt(1), scale_z |-> Rat(1, 5),
      mesh_thickness |-> Rat(1, 10)],
     [scale_x |-> FromInt(2), scale_y |-> FromInt(1), scale_z |-> Rat(1, 5),
      mesh_thickness |-> Zero],
     [scale_x |-> FromInt(1), scale_y |-> FromInt(3), scale_z |-> FromInt(1),
      mesh_thickness |-> Rat(1, 10)],
     [scale_x |-> Rat(1, 100), scale_y |-> FromInt(2), scale_z |-> Zero,
      mesh_thickness |-> FromInt(1)]}

PropertyValues ==
    {[resolution |-> r, vis_style |-> v, stereo_handling |-> h,
      normalize_amp |-> z, scale_x |-> s.scale_x, scale_y |-> s.scale_y,
      scale_z |-> s.scale_z, mesh_thickness |-> s.mesh_thickness] :
        r \in MinResolution..MaxResolutionExplored,
        v \in {"LINEAR", "RADIAL", "SPIRAL"},
        h \in {"MONO", "Z_AXIS"},
        z \in BOOLEAN,
        s \in ScaleSettings}

\* ------------------------------------------------------------- the state
VARIABLES
    pc,                 \* position of execute
    LIBROSA_AVAILABLE,  \* set once when the module is imported
    file_exists,        \* os.path.exists(filepath)
    file,               \* the decoded content of the audio file
    props,              \* context.scene.soundwaveform_props
    audio_data,
    num_total_samples, target_resolution, step, indices,
    sampled_data, sampled_data_l, sampled_data_r,
    verts, edges, faces,
    mesh, obj,          \* the datablocks created by this run ("" = none)
    meshes,             \* bpy.data.meshes
    mesh_state,         \* what the mesh datablock holds
    objects,            \* bpy.data.objects
    linked,             \* context.collection.objects
    selected, active,   \* selection state of the view layer
    reports,            \* self.report(...) calls, in order
    result              \* the set execute returns ("" while running)

vars == <<pc, LIBROSA_AVAILABLE, file_exists, file, props, audio_data,
          num_total_samples, target_resolution, step, indices,
          sampled_data, sampled_data_l, sampled_data_r, verts, edges, faces,
          mesh, obj, meshes, mesh_state, objects, linked, selected, active,
          reports, result>>

locals == <<audio_data, num_total_samples, target_resolution, step, indices,
            sampled_data, sampled_data_l, sampled_data_r, verts, edges,
            faces>>
host == <<mesh, obj, meshes, mesh_state, objects, linked, selected, active>>
env == <<LIBROSA_AVAILABLE, file_exists, file, props>>

NoAudio == [ndim |-> 0, data |-> <<>>]

Init ==
    /\ pc = "start"
    /\ LIBROSA_AVAILABLE \in BOOLEAN
    /\ file_exists \in BOOLEAN
    /\ file \in AudioFiles
    /\ props \in PropertyValues
    /\ audio_data = NoAudio
    /\ num_total_samples = 0
    /\ target_resolution = 0
    /\ step = 0
    /\ indices = <<>>
    /\ sampled_data = <<>>
    /\ sampled_data_l = <<>>
    /\ sampled_data_r = <<>>
    /\ verts = <<>>
    /\ edges = <<>>
    /\ faces = <<>>
    /\ mesh = ""
    /\ obj = ""
    /\ meshes = {}
    /\ mesh_state = "none"
    /\ objects = {"Cube"}
    /\ linked = {"Cube"}
    /\ selected = {"Cube"}
    /\ active = "Cube"
    /\ reports = <<>>
    /\ result = ""

\* ------------------------------------------------------ library functions
\* librosa.to_mono: the mean over the channel axis of a (2, N) array
to_mono(data) ==
    SeqOf(Len(data[1]),
          LAMBDA k : RDiv(RAdd(data[1][k], data[2][k]), FromInt(2)))

\* the largest absolute value of a non-empty sequence
MaxAbs(S) ==
    CHOOSE m \in {RAbs(S[k]) : k \in 1..Len(S)} :
        \A k \in 1..Len(S) : ~RLess(m, RAbs(S[k]))

\* librosa.util.normalize(S): S divided by max|S|; a norm of zero is
\* replaced by 1, which leaves the all-zero sequence as it is
normalize(S) ==
    LET length == IF MaxAbs(S) = Zero THEN One ELSE MaxAbs(S)
    IN  SeqOf(Len(S), LAMBDA k : RDiv(S[k], length))

\* np.arange(start, stop, stp) for stp > 0
arange(start, stop, stp) ==
    SeqOf((stop - start + stp - 1) \div stp,
          LAMBDA k : start + (k - 1) * stp)

\* a[indices] for a 1-dimensional array a and 0-based indices
Take(a, idx) == SeqOf(Len(idx), LAMBDA k : a[idx[k] + 1])

\* ---------------------------------------------------- geometry builders
\* t = (i / (num_verts - 1)) if num_verts > 1 else 0.5
NormTime(i, num_verts) ==
    IF num_verts > 1 THEN Rat(i, num_verts - 1) ELSE Half

\* LINEAR, vertex pair of sample i (has_stereo_z: left drives y, right z)
LinearVertex(i, top, num_verts, p, has_stereo_z, sd, sd_l, sd_r) ==
    LET x == RMul(NormTime(i, num_verts), p.scale_x)
    IN  IF has_stereo_z
        THEN LET amp_l == RMul(sd_l[i + 1], p.scale_y)
                 amp_r == RMul(sd_r[i + 1], p.scale_z)
             IN  [x |-> Plain(x), y |-> Plain(amp_l),
                  z |-> IF top THEN RMul(amp_r, Half)
                        ELSE RMul(RNeg(amp_r), Half)]
        ELSE LET amp == RMul(sd[i + 1], p.scale_y)
             IN  [x |-> Plain(x), y |-> Plain(amp),
                  z |-> IF top
                        THEN RMul(RMul(p.mesh_thickness, Half), p.scale_z)
                        ELSE RMul(RMul(RNeg(p.mesh_thickness), Half),
                                  p.scale_z)]

\* the pair appended top first
LinearVerts_TopFirst(num_verts, p, has_stereo_z, sd, sd_l, sd_r) ==
    SeqOf(2 * num_verts,
          LAMBDA k : LinearVertex((k - 1) \div 2, (k - 1) % 2 = 0, num_verts,
                                  p, has_stereo_z, sd, sd_l, sd_r))

LinearVerts(num_verts, p, has_stereo_z, sd, sd_l, sd_r) ==
    SeqOf(2 * num_verts,
          LAMBDA k : LinearVertex((k - 1) \div 2, (k - 1) % 2 = 1, num_verts,
                                  p, has_stereo_z, sd, sd_l, sd_r))

LinearEdges(num_verts) ==
    SeqOf(2 * (num_verts - 1),
          LAMBDA k : LET v_idx == ((k - 1) \div 2) * 2
                     IN  IF (k - 1) % 2 = 0 THEN <<v_idx, v_idx + 2>>
                         ELSE <<v_idx + 1, v_idx + 3>>)

\* the face loop running over range(num_verts)
LinearFaces_OneTooMany(num_verts) ==
    SeqOf(num_verts,
          LAMBDA k : LET v_idx == (k - 1) * 2
                     IN  <<v_idx, v_idx + 2, v_idx + 3, v_idx + 1>>)

LinearFaces(num_verts) ==
    SeqOf(num_verts - 1,
          LAMBDA k : LET v_idx == (k - 1) * 2
                     IN  <<v_idx, v_idx + 2, v_idx + 3, v_idx + 1>>)

\* RADIAL, vertex pair of sample i; angle = (i / num_verts) * 2 * pi
RadialVertex(i, top, num_verts, p, sd) ==
    LET center_offset == One
        angle == RMul(Rat(i, num_verts), FromInt(2))
        amp == RMul(sd[i + 1], p.scale_y)
        radius == RAdd(center_offset, amp)
        z_offset == RMul(RMul(p.mesh_thickness, Half), p.scale_z)
    IN  [x |-> Trig("cos", angle, RMul(radius, p.scale_x)),
         y |-> Trig("sin", angle, RMul(radius, p.scale_x)),
         z |-> IF top THEN z_offset ELSE RNeg(z_offset)]

RadialVerts(num_verts, p, sd) ==
    SeqOf(2 * num_verts,
          LAMBDA k : RadialVertex((k - 1) \div 2, (k - 1) % 2 = 1, num_verts,
                                  p, sd))

\* the next pair without the wrap around
RadialNext_NoWrap(i, num_verts) == (i + 1) * 2

\* line 268: next_v_idx
RadialNext(i, num_verts) == ((i + 1) % num_verts) * 2

RadialFaces(num_verts) ==
    SeqOf(num_verts,
          LAMBDA k : LET v_idx == (k - 1) * 2
                         next_v_idx == RadialNext(k - 1, num_verts)
                     IN  <<v_idx, next_v_idx, next_v_idx + 1, v_idx + 1>>)

\* the height taken from the sample and the Z scale alone
SpiralVertex_HeightWithoutScaleY(i, num_verts, p, sd) ==
    LET max_radius == RMul(One, p.scale_x)
        norm_time == NormTime(i, num_verts)
        angle == RMul(RMul(norm_time, FromInt(2)), FromInt(revolutions))
        radius == RMul(norm_time, max_radius)
    IN  [x |-> Trig("cos", angle, radius),
         y |-> Trig("sin", angle, radius),
         z |-> RMul(sd[i + 1], p.scale_z)]

\* SPIRAL, the vertex of sample i
SpiralVertex(i, num_verts, p, sd) ==
    LET max_radius == RMul(One, p.scale_x)
        norm_time == NormTime(i, num_verts)
        angle == RMul(RMul(norm_time, FromInt(2)), FromInt(revolutions))
        radius == RMul(norm_time, max_radius)
        amp == RMul(sd[i + 1], p.scale_y)
    IN  [x |-> Trig("cos", angle, radius),
         y |-> Trig("sin", angle, radius),
         z |-> RMul(amp, p.scale_z)]

SpiralVerts(num_verts, p, sd) ==
    SeqOf(num_verts, LAMBDA k : SpiralVertex(k - 1, num_verts, p, sd))

SpiralEdges(num_verts) ==
    SeqOf(num_verts - 1, LAMBDA k : <<k - 1, k>>)

\* ------------------------------------------------------------ operations
\* the except clause (lines 319-323), and every other early return:
\* one report, then the return value
Return(level, what, value) ==
    /\ reports' = Append(reports, <<level, what>>)
    /\ result' = value
    /\ pc' = "returned"

\* lines 135-146: the availability and file checks
CheckInputs ==
    /\ pc = "start"
    /\ IF ~LIBROSA_AVAILABLE
       THEN Return("ERROR", "librosa not found", "CANCELLED")
       ELSE IF ~file_exists
       THEN Return("ERROR", "file not found", "CANCELLED")
       ELSE /\ pc' = "load"
            /\ UNCHANGED <<reports, result>>
    /\ UNCHANGED <<env, locals, host>>

\* line 152: librosa.load returns the decoded buffer
LoadAudio ==
    /\ pc = "load"
    /\ audio_data' = file
    /\ pc' = "reduce"
    /\ UNCHANGED <<env, num_total_samples, target_resolution, step, indices,
                   sampled_data, sampled_data_l, sampled_data_r, verts, edges,
                   faces, host, reports, result>>

\* line 152: librosa.load raises (unsupported or corrupt file)
LoadFails ==
    /\ pc = "load"
    /\ Return("ERROR", "load failed", "CANCELLED")
    /\ UNCHANGED <<env, locals, host>>

\* the fallback taking the second channel
ReduceChannels_SecondChannel(a, p) ==
    IF a.ndim > 1
    THEN IF p.stereo_handling = "MONO"
         THEN [ndim |-> 1, data |-> <<to_mono(a.data)>>]
         ELSE IF p.stereo_handling = "Z_AXIS" /\ p.vis_style = "LINEAR"
         THEN a
         ELSE [ndim |-> 1, data |-> <<a.data[2]>>]
    ELSE a

\* lines 156-167: what audio_data is after the stereo/mono handling
ReduceChannels(a, p) ==
    IF a.ndim > 1
    THEN IF p.stereo_handling = "MONO"
         THEN [ndim |-> 1, data |-> <<to_mono(a.data)>>]
         ELSE IF p.stereo_handling = "Z_AXIS" /\ p.vis_style = "LINEAR"
         THEN a
         ELSE [ndim |-> 1, data |-> <<a.data[1]>>]
    ELSE a

ChannelReduction ==
    /\ pc = "reduce"
    /\ audio_data' = ReduceChannels(audio_data, props)
    /\ pc' = "downsample"
    /\ UNCHANGED <<env, num_total_samples, target_resolution, step, indices,
                   sampled_data, sampled_data_l, sampled_data_r, verts, edges,
                   faces, host, reports, result>>

\* the cap never going below 1
CapResolution_AtLeastOne(resolution, total) ==
    IF resolution > total THEN (IF total = 0 THEN 1 ELSE total)
    ELSE resolution

\* lines 175-176: the resolution capped at the available samples
CapResolution(resolution, total) ==
    IF resolution > total THEN total ELSE resolution

\* the step rounded up instead of down
StepSize_RoundedUp(total, target) ==
    IF (total + target - 1) \div target = 0 THEN 1
    ELSE (total + target - 1) \div target

\* lines 180-181: step = total // target, 0 replaced by 1 (target # 0)
StepSize(total, target) ==
    IF total \div target = 0 THEN 1 ELSE total \div target

\* lines 171-185: the indices of the retained samples; the integer
\* division at line 180 raises ZeroDivisionError when the capped
\* resolution is 0, which the except clause turns into CANCELLED
Downsample ==
    /\ pc = "downsample"
    /\ LET total == Len(audio_data.data[1])
           target == CapResolution(props.resolution, total)
       IN  /\ num_total_samples' = total
           /\ target_resolution' = target
           /\ IF target = 0
              THEN /\ Return("ERROR", "integer division or modulo by zero",
                             "CANCELLED")
                   /\ UNCHANGED <<step, indices>>
              ELSE /\ step' = StepSize(total, target)
                   /\ indices' = arange(0, total, StepSize(total, target))
                   /\ pc' = "sample"
                   /\ UNCHANGED <<reports, result>>
    /\ UNCHANGED <<env, audio_data, sampled_data, sampled_data_l,
                   sampled_data_r, verts, edges, faces, host>>

\* line 187: both channels are sampled
KeepsStereo(a, p) ==
    a.ndim > 1 /\ p.stereo_handling = "Z_AXIS" /\ p.vis_style = "LINEAR"

\* lines 191-193, 201-202
NormalizeIf(flag, S) == IF flag THEN normalize(S) ELSE S

\* lines 196-199: the one effective channel
EffectiveChannel(a, p, idx) ==
    IF a.ndim > 1
    THEN IF p.stereo_handling # "MONO"
         THEN Take(a.data[1], idx)
         ELSE Take(to_mono(a.data), idx)
    ELSE Take(a.data[1], idx)

\* lines 187-205
SampleChannels ==
    /\ pc = "sample"
    /\ IF KeepsStereo(audio_data, props)
       THEN /\ sampled_data_l' =
                   NormalizeIf(props.normalize_amp,
                               Take(audio_data.data[1], indices))
            /\ sampled_data_r' =
                   NormalizeIf(props.normalize_amp,
                               Take(audio_data.data[2], indices))
            /\ UNCHANGED sampled_data
       ELSE /\ sampled_data' =
                   NormalizeIf(props.normalize_amp,
                               EffectiveChannel(audio_data, props, indices))
            /\ UNCHANGED <<sampled_data_l, sampled_data_r>>
    /\ pc' = "build"
    /\ UNCHANGED <<env, audio_data, num_total_samples, target_resolution,
                   step, indices, verts, edges, faces, host, reports, result>>

\* line 218
HasStereoZ(a, p) == a.ndim > 1 /\ p.stereo_handling = "Z_AXIS"

\* lines 208-293: the selected builder fills verts, edges and faces
BuildGeometry ==
    /\ pc = "build"
    /\ LET num_verts == Len(indices)
       IN  CASE props.vis_style = "LINEAR" ->
                  /\ verts' = LinearVerts(num_verts, props,
                                          HasStereoZ(audio_data, props),
                                          sampled_data, sampled_data_l,
                                          sampled_data_r)
                  /\ edges' = LinearEdges(num_verts)
                  /\ faces' = LinearFaces(num_verts)
             [] props.vis_style = "RADIAL" ->
                  /\ verts' = RadialVerts(num_verts, props, sampled_data)
                  /\ edges' = <<>>
                  /\ faces' = RadialFaces(num_verts)
             [] props.vis_style = "SPIRAL" ->
                  /\ verts' = SpiralVerts(num_verts, props, sampled_data)
                  /\ edges' = SpiralEdges(num_verts)
                  /\ faces' = <<>>
    /\ pc' = "mesh_new"
    /\ UNCHANGED <<env, audio_data, num_total_samples, target_resolution,
                   step, indices, sampled_data, sampled_data_l,
                   sampled_data_r, host, reports, result>>

\* line 296
mesh_name == "song_Waveform"

\* lines 296-301: the mesh datablock is created, then verts is checked
MeshesNew ==
    /\ pc = "mesh_new"
    /\ mesh' = mesh_name
    /\ meshes' = meshes \cup {mesh_name}
    /\ mesh_state' = "empty"
    /\ IF verts = <<>>
       THEN Return("WARNING", "no vertices generated", "CANCELLED")
       ELSE /\ pc' = "from_pydata"
            /\ UNCHANGED <<reports, result>>
    /\ UNCHANGED <<env, locals, obj, objects, linked, selected, active>>

\* line 303
FromPydata ==
    /\ pc = "from_pydata"
    /\ mesh_state' = "geometry"
    /\ pc' = "update"
    /\ UNCHANGED <<env, locals, mesh, obj, meshes, objects, linked, selected,
                   active, reports, result>>

\* line 304
MeshUpdate ==
    /\ pc = "update"
    /\ mesh_state' = "updated"
    /\ pc' = "object_new"
    /\ UNCHANGED <<env, locals, mesh, obj, meshes, objects, linked, selected,
                   active, reports, result>>

\* lines 306-307
ObjectsNew ==
    /\ pc = "object_new"
    /\ obj' = mesh_name
    /\ objects' = objects \cup {mesh_name}
    /\ pc' = "link"
    /\ UNCHANGED <<env, locals, mesh, meshes, mesh_state, linked, selected,
                   active, reports, result>>

\* line 310
LinkObject ==
    /\ pc = "link"
    /\ linked' = linked \cup {obj}
    /\ pc' = "select_all"
    /\ UNCHANGED <<env, locals, mesh, obj, meshes, mesh_state, objects,
                   selected, active, reports, result>>

\* line 312
SelectAll ==
    /\ pc = "select_all"
    /\ selected' = {}
    /\ pc' = "select_set"
    /\ UNCHANGED <<env, locals, mesh, obj, meshes, mesh_state, objects,
                   linked, active, reports, result>>

\* line 313
SelectSet ==
    /\ pc = "select_set"
    /\ selected' = selected \cup {obj}
    /\ pc' = "set_active"
    /\ UNCHANGED <<env, locals, mesh, obj, meshes, mesh_state, objects,
                   linked, active, reports, result>>

\* line 314
SetActive ==
    /\ pc = "set_active"
    /\ active' = obj
    /\ pc' = "report"
    /\ UNCHANGED <<env, locals, mesh, obj, meshes, mesh_state, objects,
                   linked, selected, reports, result>>

\* lines 316-317
Finish ==
    /\ pc = "report"
    /\ Return("INFO", "generated waveform mesh", "FINISHED")
    /\ UNCHANGED <<env, locals, host>>

\* the positions at which a call into the host is about to be made
HostCalls == {"from_pydata", "update", "object_new", "link", "select_all",
              "select_set", "set_active"}

\* lines 303-314 and 319-323: the host call raises; the except clause
\* reports the error and returns CANCELLED, nothing else is touched
HostCallFails ==
    /\ pc \in HostCalls
    /\ Return("ERROR", pc, "CANCELLED")
    /\ UNCHANGED <<env, locals, host>>

Next ==
    \/ CheckInputs
    \/ LoadAudio
    \/ LoadFails
    \/ ChannelReduction
    \/ Downsample
    \/ SampleChannels
    \/ BuildGeometry
    \/ MeshesNew
    \/ FromPydata
    \/ MeshUpdate
    \/ ObjectsNew
    \/ LinkObject
    \/ SelectAll
    \/ SelectSet
    \/ SetActive
    \/ Finish
    \/ HostCallFails

Spec == Init /\ [][Next]_vars

\* ---------------------------------------------------------------- claims
\* the positions at which verts, edges and faces are those of the builder
AfterBuild == pc \in {"mesh_new", "report"} \cup HostCalls

\* the positions at which the prepared samples are final
AfterSample == pc = "build" \/ AfterBuild

\* the prepared sample count n used by the builders
PreparedCount == Len(indices)

\* samples per channel of the decoded buffer
BufferSamples == Len(file.data[1])

Min(a, b) == IF a < b THEN a ELSE b

Range(S) == {S[k] : k \in 1..Len(S)}

\* the prepared sample of index i (0-based) that drives the amplitude
AmplitudeSample(i) ==
    IF HasStereoZ(audio_data, props) /\ props.vis_style = "LINEAR"
    THEN sampled_data_l[i + 1]
    ELSE sampled_data[i + 1]

\* C1: after downsampling, the number of retained samples is exactly
\* min(resolution, samples per channel).
C1_LengthIsMinResolutionSamples ==
    (pc = "sample") =>
        PreparedCount = Min(props.resolution, num_total_samples)

\* C2: a request that returns CANCELLED leaves no mesh datablock and no
\* object that it created registered with the host.
C2_CancelledLeavesNothingRegistered ==
    (pc = "returned" /\ result = "CANCELLED") =>
        /\ mesh_name \notin meshes
        /\ mesh_name \notin objects
        /\ mesh_name \notin linked

\* C3: a buffer with zero samples ends in a reported failure without any
\* mesh datablock or object being created, and whenever a mesh datablock
\* has been created the prepared sample count is at least 1.
C3_EmptyBufferCreatesNoMesh ==
    /\ (BufferSamples = 0) =>
           /\ mesh = "" /\ obj = ""
           /\ meshes = {} /\ objects = {"Cube"} /\ mesh_state = "none"
           /\ pc \notin {"mesh_new"} \cup HostCalls
    /\ (BufferSamples = 0 /\ pc = "returned") =>
           /\ result = "CANCELLED"
           /\ Len(reports) = 1
           /\ reports[1][1] \in {"ERROR", "WARNING"}
    /\ (mesh # "" \/ meshes # {}) =>
           /\ PreparedCount >= 1
           /\ Len(verts) >= 1

C3_Witness ==
    /\ pc = "returned"
    /\ BufferSamples = 0
    /\ target_resolution = 0
    /\ audio_data # NoAudio
    /\ reports = <<<<"ERROR", "integer division or modulo by zero">>>>

\* C4: every vertex index in an emitted edge or face is at least 0 and
\* less than the number of emitted vertices.
C4_IndicesInRange ==
    AfterBuild =>
        /\ \A e \in Range(edges) : \A v \in Range(e) :
               v >= 0 /\ v < Len(verts)
        /\ \A f \in Range(faces) : \A v \in Range(f) :
               v >= 0 /\ v < Len(verts)

C4_Witness ==
    /\ pc = "from_pydata"
    /\ props.vis_style = "LINEAR"
    /\ PreparedCount >= 3
    /\ \E f \in Range(faces) : Len(verts) - 1 \in Range(f)

\* C5: with one prepared sample LINEAR and RADIAL produce 2 vertices and
\* 0 faces, SPIRAL produces 1 vertex and 0 edges.
C5_SingleSampleGeometry ==
    (AfterBuild /\ PreparedCount = 1) =>
        /\ props.vis_style = "LINEAR" => Len(verts) = 2 /\ Len(faces) = 0
        /\ props.vis_style = "RADIAL" => Len(verts) = 2 /\ Len(faces) = 0
        /\ props.vis_style = "SPIRAL" => Len(verts) = 1 /\ Len(edges) = 0

\* C6: for n >= 2 prepared samples, LINEAR emits n-1 quads and 2(n-1)
\* edges, none of them joining the last sample to the first; RADIAL emits
\* n quads, the last joining sample n-1 to sample 0, and no edges; SPIRAL
\* emits n-1 edges, the i-th joining vertex i to i+1, and no faces.
C6_FaceAndEdgeCounts ==
    (AfterBuild /\ PreparedCount >= 2) =>
        LET n == PreparedCount
            Pair(i) == {2 * i, 2 * i + 1}
            IsQuad(f) == Len(f) = 4 /\ Cardinality(Range(f)) = 4
        IN  /\ props.vis_style = "LINEAR" =>
                /\ Len(faces) = n - 1
                /\ Len(edges) = 2 * (n - 1)
                /\ \A k \in 1..(n - 1) :
                       /\ IsQuad(faces[k])
                       /\ Range(faces[k]) = Pair(k - 1) \cup Pair(k)
                /\ \A e \in Range(edges) : e[2] = e[1] + 2
            /\ props.vis_style = "RADIAL" =>
                /\ Len(faces) = n
                /\ Len(edges) = 0
                /\ \A k \in 1..(n - 1) :
                       Range(faces[k]) = Pair(k - 1) \cup Pair(k)
                /\ Range(faces[n]) = Pair(n - 1) \cup Pair(0)
                /\ n > 2 => \A k \in 1..n : IsQuad(faces[k])
            /\ props.vis_style = "SPIRAL" =>
                /\ Len(edges) = n - 1
                /\ Len(faces) = 0
                /\ \A k \in 1..(n - 1) : edges[k] = <<k - 1, k>>

C6_Witness ==
    /\ pc = "from_pydata"
    /\ props.vis_style = "RADIAL"
    /\ PreparedCount >= 3
    /\ faces[PreparedCount][2] = 0

\* C7: LINEAR (standard and Z_AXIS stereo) and RADIAL emit 2n vertices,
\* the bottom and top vertex of sample i at indices 2i and 2i+1; SPIRAL
\* emits n vertices, vertex i being that of sample i.
C7_VertexCounts ==
    (AfterBuild /\ PreparedCount >= 1) =>
        LET n == PreparedCount
            sy == props.scale_y
            sz == props.scale_z
            v(j) == verts[j + 1]
        IN  /\ props.vis_style = "LINEAR" =>
                /\ Len(verts) = 2 * n
                /\ \A i \in 0..(n - 1) :
                       LET h == IF HasStereoZ(audio_data, props)
                                THEN RMul(RMul(sampled_data_r[i + 1], sz),
                                          Half)
                                ELSE RMul(RMul(props.mesh_thickness, sz),
                                          Half)
                       IN  /\ v(2 * i).y.m = RMul(AmplitudeSample(i), sy)
                           /\ v(2 * i + 1).y = v(2 * i).y
                           /\ v(2 * i + 1).x = v(2 * i).x
                           /\ v(2 * i).x.m =
                                  RMul(NormTime(i, n), props.scale_x)
                           /\ v(2 * i).z = RNeg(h)
                           /\ v(2 * i + 1).z = h
            /\ props.vis_style = "RADIAL" =>
                /\ Len(verts) = 2 * n
                /\ \A i \in 0..(n - 1) :
                       LET h == RMul(RMul(props.mesh_thickness, sz), Half)
                       IN  /\ v(2 * i).x.a = Rat(2 * i, n)
                           /\ v(2 * i).x.m =
                                  RMul(RAdd(One, RMul(sampled_data[i + 1],
                                                       sy)), props.scale_x)
                           /\ v(2 * i + 1).x = v(2 * i).x
                           /\ v(2 * i + 1).y = v(2 * i).y
                           /\ v(2 * i).z = RNeg(h)
                           /\ v(2 * i + 1).z = h
            /\ props.vis_style = "SPIRAL" =>
                /\ Len(verts) = n
                /\ \A i \in 0..(n - 1) :
                       /\ v(i).x.m = RMul(NormTime(i, n), props.scale_x)
                       /\ v(i).x.a =
                              RMul(NormTime(i, n), FromInt(2 * revolutions))
                       /\ v(i).z = RMul(RMul(sampled_data[i + 1], sy), sz)

C7_Witness ==
    /\ pc = "from_pydata"
    /\ props.vis_style = "LINEAR"
    /\ HasStereoZ(audio_data, props)
    /\ PreparedCount >= 3
    /\ Len(verts) = 2 * PreparedCount
    /\ verts[5].z # verts[6].z

\* p = q * r * s for rationals, by cross multiplication
IsProduct3(p, q, r, s) ==
    p[1] * q[2] * r[2] * s[2] = q[1] * r[1] * s[1] * p[2]

\* C8 as stated: in SPIRAL the height of vertex i is sample[i] * scaleZ,
\* whatever scaleY is.
C8_SpiralHeightIgnoresScaleY ==
    (AfterBuild /\ props.vis_style = "SPIRAL") =>
        \A i \in 0..(PreparedCount - 1) :
            IsProduct3(verts[i + 1].z, sampled_data[i + 1], props.scale_z,
                       One)

\* C8 (amended): in SPIRAL the height of vertex i is
\* sample[i] * scaleY * scaleZ for every i in [0, n).
C8_SpiralHeight ==
    (AfterBuild /\ props.vis_style = "SPIRAL") =>
        /\ Len(verts) = PreparedCount
        /\ \A i \in 0..(PreparedCount - 1) :
               IsProduct3(verts[i + 1].z, sampled_data[i + 1],
                          props.scale_y, props.scale_z)

C8_Witness ==
    /\ pc = "from_pydata"
    /\ props.vis_style = "SPIRAL"
    /\ props.scale_y = FromInt(3)
    /\ PreparedCount >= 2
    /\ verts[2].z # Zero
    /\ verts[2].z # RMul(sampled_data[2], props.scale_z)

\* the samples of channel c (1 = left, 2 = right) of the decoded buffer
\* at the retained indices
FileSamples(c) ==
    SeqOf(Len(indices), LAMBDA k : file.data[c][indices[k] + 1])

\* the sample-wise average of the two channels at the retained indices
FileAverage ==
    SeqOf(Len(indices),
          LAMBDA k : RDiv(RAdd(file.data[1][indices[k] + 1],
                               file.data[2][indices[k] + 1]), FromInt(2)))

\* C9: for a 2-channel buffer the builder gets the average of the channels
\* under MONO, both channels as an equally long (left, right) pair under
\* Z_AXIS with LINEAR (left driving y, right the z half-thickness), and
\* channel 0 in the other combinations; a 1-channel buffer is used as it
\* is, whatever the stereo handling.
C9_ChannelReduction ==
    AfterSample =>
        LET norm(S) == NormalizeIf(props.normalize_amp, S)
        IN  /\ (file.ndim = 2 /\ props.stereo_handling = "MONO") =>
                /\ sampled_data = norm(FileAverage)
                /\ sampled_data_l = <<>> /\ sampled_data_r = <<>>
                /\ ~(AfterBuild /\ props.vis_style = "LINEAR")
                       \/ \A i \in 0..(PreparedCount - 1) :
                              verts[2 * i + 1].y.m =
                                  RMul(sampled_data[i + 1], props.scale_y)
            /\ (file.ndim = 2 /\ props.stereo_handling = "Z_AXIS"
                    /\ props.vis_style = "LINEAR") =>
                /\ sampled_data_l = norm(FileSamples(1))
                /\ sampled_data_r = norm(FileSamples(2))
                /\ Len(sampled_data_l) = Len(sampled_data_r)
                /\ sampled_data = <<>>
                /\ AfterBuild =>
                       \A i \in 0..(PreparedCount - 1) :
                           /\ verts[2 * i + 1].y.m =
                                  RMul(sampled_data_l[i + 1], props.scale_y)
                           /\ verts[2 * i + 2].z =
                                  RMul(RMul(sampled_data_r[i + 1],
                                            props.scale_z), Half)
            /\ (file.ndim = 2 /\ props.stereo_handling = "Z_AXIS"
                    /\ props.vis_style # "LINEAR") =>
                /\ sampled_data = norm(FileSamples(1))
                /\ sampled_data_l = <<>> /\ sampled_data_r = <<>>
            /\ file.ndim = 1 =>
                /\ sampled_data = norm(FileSamples(1))
                /\ sampled_data_l = <<>> /\ sampled_data_r = <<>>
                /\ ~(AfterBuild /\ props.vis_style = "LINEAR")
                       \/ \A i \in 0..(PreparedCount - 1) :
                              verts[2 * i + 2].z =
                                  RMul(RMul(props.mesh_thickness,
                                            props.scale_z), Half)

C9_Witness ==
    /\ pc = "from_pydata"
    /\ file.ndim = 2
    /\ props.stereo_handling = "Z_AXIS"
    /\ props.vis_style = "LINEAR"
    /\ PreparedCount >= 3
    /\ sampled_data_l # sampled_data_r
    /\ props.scale_z # Zero
    /\ verts[4].z # verts[6].z

====
